---- MODULE Spec2Model ----
(***************************************************************************)
(* Lektrico charging station sensors                                       *)
(* (homeassistant/components/lektrico/sensor.py).                          *)
(*                                                                         *)
(* Python values are tagged records.  A float is kept in hundredths        *)
(* (FloatV(368) is 3.68), which is exact for every value used here.  A     *)
(* call that raises yields Raise(exception) instead of a value.            *)
(***************************************************************************)
EXTENDS Integers, Sequences, FiniteSets, TLC

VARIABLES serial_number, data, entities, completed, call

vars == <<serial_number, data, entities, completed, call>>

(* Largest number of completed async_setup_entry runs explored. *)
MaxSetups == 2

-----------------------------------------------------------------------------
(* Python values *)

None == [type |-> "NoneType"]

IntV(n) == [type |-> "int", val |-> n]

FloatV(h) == [type |-> "float", val |-> h]

StrV(s) == [type |-> "str", val |-> s]

Raise(e) == [type |-> "raise", exc |-> e]

IsRaise(v) == v.type = "raise"

Digit == <<"0", "1", "2", "3", "4", "5", "6", "7", "8", "9">>

RECURSIVE NatToStr(_)
NatToStr(n) == IF n < 10 THEN Digit[n + 1]
               ELSE NatToStr(n \div 10) \o Digit[(n % 10) + 1]

IntToStr(n) == IF n < 0 THEN "-" \o NatToStr(-n) ELSE NatToStr(n)

Abs(n) == IF n < 0 THEN -n ELSE n

(* repr of a float with at most two decimals: 1600 -> "16.0", 368 -> "3.68" *)
FloatToStr(h) ==
    LET a  == Abs(h)
        fr == a % 100
    IN  (IF h < 0 THEN "-" ELSE "") \o NatToStr(a \div 100) \o "." \o
        (IF fr % 10 = 0 THEN Digit[(fr \div 10) + 1]
                        ELSE Digit[(fr \div 10) + 1] \o Digit[(fr % 10) + 1])

(* str(x) *)
py_str(v) ==
    CASE v.type = "raise"    -> v
      [] v.type = "str"      -> v
      [] v.type = "NoneType" -> StrV("None")
      [] v.type = "int"      -> StrV(IntToStr(v.val))
      [] v.type = "float"    -> StrV(FloatToStr(v.val))

(* int(x): truncates a float toward zero; the strings of this model are    *)
(* words, never numerals.                                                  *)
py_int(v) ==
    CASE v.type = "raise"    -> v
      [] v.type = "int"      -> v
      [] v.type = "float"    -> IntV(IF v.val >= 0 THEN v.val \div 100
                                                   ELSE -((-v.val) \div 100))
      [] v.type = "NoneType" -> Raise("TypeError")
      [] v.type = "str"      -> Raise("ValueError")

(* float(x) *)
py_float(v) ==
    CASE v.type = "raise"    -> v
      [] v.type = "float"    -> v
      [] v.type = "int"      -> FloatV(v.val * 100)
      [] v.type = "NoneType" -> Raise("TypeError")
      [] v.type = "str"      -> Raise("ValueError")

(* obj.name: attribute access on a snapshot (a record of its attributes)   *)
(* or on None.                                                             *)
getattr(obj, name) ==
    IF obj = None THEN Raise("AttributeError")
    ELSE IF name \in DOMAIN obj THEN obj[name]
    ELSE Raise("AttributeError")

-----------------------------------------------------------------------------
(* Entity descriptions *)

(* get_native_value with the temperature class reading the voltage *)
get_native_value_wrong_field(description, d) ==
    LET cls == description.cls IN
    CASE cls = "LektricoSensorEntityDescription" -> None
      [] cls = "ChargerStateSensorEntityDescription" ->
            py_str(getattr(d, "charger_state"))
      [] cls = "ChargingTimeSensorEntityDescription" ->
            py_int(getattr(d, "charging_time"))
      [] cls = "CurrentSensorEntityDescription" ->
            py_float(getattr(d, "current"))
      [] cls = "InstantPowerSensorEntityDescription" ->
            py_float(getattr(d, "instant_power"))
      [] cls = "SessionEnergySensorEntityDescription" ->
            py_float(getattr(d, "session_energy"))
      [] cls = "TemperatureSensorEntityDescription" ->
            py_float(getattr(d, "voltage"))
      [] cls = "TotalChargedEnergySensorEntityDescription" ->
            py_int(getattr(d, "total_charged_energy"))
      [] cls = "VoltageSensorEntityDescription" ->
            py_float(getattr(d, "voltage"))
      [] cls = "InstallCurrentSensorEntityDescription" ->
            py_int(getattr(d, "install_current"))
      [] cls = "DynamicCurrentSensorEntityDescription" ->
            py_int(getattr(d, "dynamic_current"))
      [] cls = "LedMaxBrightnessSensorEntityDescription" ->
            py_int(getattr(d, "led_max_brightness"))

(* get_native_value of each description class *)
get_native_value(description, d) ==
    LET cls == description.cls IN
    CASE cls = "LektricoSensorEntityDescription" -> None
      [] cls = "ChargerStateSensorEntityDescription" ->
            py_str(getattr(d, "charger_state"))
      [] cls = "ChargingTimeSensorEntityDescription" ->
            py_int(getattr(d, "charging_time"))
      [] cls = "CurrentSensorEntityDescription" ->
            py_float(getattr(d, "current"))
      [] cls = "InstantPowerSensorEntityDescription" ->
            py_float(getattr(d, "instant_power"))
      [] cls = "SessionEnergySensorEntityDescription" ->
            py_float(getattr(d, "session_energy"))
      [] cls = "TemperatureSensorEntityDescription" ->
            py_float(getattr(d, "temperature"))
      [] cls = "TotalChargedEnergySensorEntityDescription" ->
            py_int(getattr(d, "total_charged_energy"))
      [] cls = "VoltageSensorEntityDescription" ->
            py_float(getattr(d, "voltage"))
      [] cls = "InstallCurrentSensorEntityDescription" ->
            py_int(getattr(d, "install_current"))
      [] cls = "DynamicCurrentSensorEntityDescription" ->
            py_int(getattr(d, "dynamic_current"))
      [] cls = "LedMaxBrightnessSensorEntityDescription" ->
            py_int(getattr(d, "led_max_brightness"))

(* SENSORS with the voltage description pasted over the last entry *)
SENSORS_duplicate == <<
    [cls |-> "ChargerStateSensorEntityDescription",
     key |-> "charger_state", name |-> "Charger state"],
    [cls |-> "ChargingTimeSensorEntityDescription",
     key |-> "charging_time", name |-> "Charging time"],
    [cls |-> "CurrentSensorEntityDescription",
     key |-> "current", name |-> "Current"],
    [cls |-> "InstantPowerSensorEntityDescription",
     key |-> "instant_power", name |-> "Instant power"],
    [cls |-> "SessionEnergySensorEntityDescription",
     key |-> "session_energy", name |-> "Session energy"],
    [cls |-> "TemperatureSensorEntityDescription",
     key |-> "temperature", name |-> "Temperature"],
    [cls |-> "TotalChargedEnergySensorEntityDescription",
     key |-> "total_charged_energy", name |-> "Total charged energy"],
    [cls |-> "VoltageSensorEntityDescription",
     key |-> "voltage", name |-> "Voltage"],
    [cls |-> "VoltageSensorEntityDescription",
     key |-> "voltage", name |-> "Install current"] >>

SENSORS == <<
    [cls |-> "ChargerStateSensorEntityDescription",
     key |-> "charger_state", name |-> "Charger state"],
    [cls |-> "ChargingTimeSensorEntityDescription",
     key |-> "charging_time", name |-> "Charging time"],
    [cls |-> "CurrentSensorEntityDescription",
     key |-> "current", name |-> "Current"],
    [cls |-> "InstantPowerSensorEntityDescription",
     key |-> "instant_power", name |-> "Instant power"],
    [cls |-> "SessionEnergySensorEntityDescription",
     key |-> "session_energy", name |-> "Session energy"],
    [cls |-> "TemperatureSensorEntityDescription",
     key |-> "temperature", name |-> "Temperature"],
    [cls |-> "TotalChargedEnergySensorEntityDescription",
     key |-> "total_charged_energy", name |-> "Total charged energy"],
    [cls |-> "VoltageSensorEntityDescription",
     key |-> "voltage", name |-> "Voltage"],
    [cls |-> "InstallCurrentSensorEntityDescription",
     key |-> "install_current", name |-> "Install current"] >>

-----------------------------------------------------------------------------
(* Snapshots published by the coordinator *)

(* charging session: every field present, of its declared type *)
Charging ==
    [charger_state |-> StrV("charging"), charging_time |-> IntV(3600),
     current |-> FloatV(1600), instant_power |-> FloatV(368),
     session_energy |-> FloatV(125), temperature |-> FloatV(3450),
     total_charged_energy |-> IntV(102), voltage |-> FloatV(23000),
     install_current |-> IntV(32), fw_version |-> StrV("1.0.0")]

(* after the session, on a newer firmware, on a cold day *)
Idle ==
    [charger_state |-> StrV("connected"), charging_time |-> IntV(0),
     current |-> FloatV(0), instant_power |-> FloatV(0),
     session_energy |-> FloatV(730), temperature |-> FloatV(-550),
     total_charged_energy |-> IntV(109), voltage |-> FloatV(22910),
     install_current |-> IntV(16), fw_version |-> StrV("1.1.0")]

(* every field present but of another type than declared: integers where   *)
(* floats are declared, floats where integers are, a state code            *)
Raw ==
    [charger_state |-> IntV(2), charging_time |-> FloatV(9050),
     current |-> IntV(6), instant_power |-> IntV(4),
     session_energy |-> IntV(1), temperature |-> IntV(-7),
     total_charged_energy |-> FloatV(10275), voltage |-> IntV(229),
     install_current |-> FloatV(3200), fw_version |-> FloatV(120)]

FullSnapshots == {Charging, Idle, Raw}

Fields == DOMAIN Charging

(* the snapshot without attribute f *)
Without(s, f) == [g \in (DOMAIN s) \ {f} |-> s[g]]

(* the snapshot whose attribute f is None *)
WithNull(s, f) == [s EXCEPT ![f] = None]

Snapshots ==
    FullSnapshots \cup {Without(s, f) : s \in FullSnapshots, f \in Fields}
                  \cup {WithNull(s, f) : s \in FullSnapshots, f \in Fields}

(* the snapshots of the two-charger specification *)
PolledSnapshots == {Charging, Idle, Without(Charging, "fw_version")}

-----------------------------------------------------------------------------
(* Configuration *)

Entries == {"entry_1", "entry_2"}

Serials == {"BBB222", "AAA111_install"}

LEKTRICO_DOMAIN == "lektrico"

(* entry.data[CONF_FRIENDLY_NAME] *)
ConfFriendlyName(entry) ==
    IF entry = "entry_1" THEN "Garage charger" ELSE "Driveway charger"

(* coordinator.board_revision *)
board_revision(entry) == IF entry = "entry_1" THEN "B" ELSE "C"

-----------------------------------------------------------------------------
(* The entity *)

(* the unique id without the key *)
unique_id_serial_only(serial, key) == serial \o "_"

unique_id(serial, key) == serial \o "_" \o key

(* __init__ taking the firmware version from the board revision *)
LektricoSensor_board_revision(description, coordinator, friendly_name) ==
    [type |-> "LektricoSensor",
     entity_description |-> description,
     coordinator |-> coordinator,
     unique_id |-> serial_number[coordinator] \o "_" \o description.key,
     device_info |->
         [identifiers |-> {<<LEKTRICO_DOMAIN, serial_number[coordinator]>>},
          model |-> "1P7K " \o serial_number[coordinator] \o " rev."
                    \o board_revision(coordinator),
          name |-> friendly_name,
          manufacturer |-> "Lektrico",
          sw_version |-> StrV(board_revision(coordinator))]]

(* LektricoSensor.__init__; the coordinator is named by its config entry *)
LektricoSensor(description, coordinator, friendly_name) ==
    LET fw_version == getattr(data[coordinator], "fw_version") IN
    IF IsRaise(fw_version) THEN fw_version
    ELSE [type |-> "LektricoSensor",
          entity_description |-> description,
          coordinator |-> coordinator,
          unique_id |-> unique_id(serial_number[coordinator], description.key),
          device_info |->
              [identifiers |-> {<<LEKTRICO_DOMAIN, serial_number[coordinator]>>},
               model |-> "1P7K " \o serial_number[coordinator] \o " rev."
                         \o board_revision(coordinator),
               name |-> friendly_name,
               manufacturer |-> "Lektrico",
               sw_version |-> fw_version]]

(* native_value reading the first coordinator instead of its own *)
native_value_first_coordinator(self) ==
    get_native_value(self.entity_description, data["entry_1"])

(* LektricoSensor.native_value *)
native_value(self) ==
    get_native_value(self.entity_description, data[self.coordinator])

-----------------------------------------------------------------------------
(* State machine *)

NoCall == [op |-> "none"]

Init ==
    /\ serial_number \in
          {f \in [Entries -> {"AAA111"} \cup Serials] :
              f["entry_1"] = "AAA111" /\ f["entry_2"] # "AAA111"}
    /\ data = [e \in Entries |-> None]
    /\ entities = <<>>
    /\ completed = [e \in Entries |-> 0]
    /\ call = NoCall

(* the generator starting at the second description *)
SetupEntities_skip_first(entry) ==
    [i \in 1..(Len(SENSORS) - 1) |->
        LektricoSensor(SENSORS[i + 1], entry, ConfFriendlyName(entry))]

(* the generator handed to async_add_entities, consumed in order *)
SetupEntities(entry) ==
    [i \in 1..Len(SENSORS) |->
        LektricoSensor(SENSORS[i], entry, ConfFriendlyName(entry))]

(* async_setup_entry for one config entry; async_add_entities appends what *)
(* the generator yields, and nothing when a constructor raises             *)
async_setup_entry(entry) ==
    /\ Len(entities) < MaxSetups * Len(SENSORS)
    /\ LET built  == SetupEntities(entry)
           failed == {i \in DOMAIN built : IsRaise(built[i])}
       IN  IF failed = {}
           THEN /\ entities' = entities \o built
                /\ completed' = [completed EXCEPT ![entry] = @ + 1]
                /\ call' = [op |-> "async_setup_entry", entry |-> entry,
                            result |-> None]
           ELSE /\ UNCHANGED <<entities, completed>>
                /\ call' = [op |-> "async_setup_entry", entry |-> entry,
                            result |-> built[CHOOSE i \in failed :
                                               \A j \in failed : i <= j]]
    /\ UNCHANGED <<serial_number, data>>

(* the coordinator publishes a new snapshot, replacing the old one whole *)
Refresh(entry, snapshot) ==
    /\ data' = [data EXCEPT ![entry] = snapshot]
    /\ call' = [op |-> "refresh", entry |-> entry]
    /\ UNCHANGED <<serial_number, entities, completed>>

(* a read that consumes the snapshot it reads *)
ReadNativeValue_consuming(i) ==
    /\ call' = [op |-> "native_value", entity |-> i,
                result |-> native_value(entities[i])]
    /\ data' = [data EXCEPT ![entities[i].coordinator] = None]
    /\ UNCHANGED <<serial_number, entities, completed>>

(* the platform reads the state of entity i *)
ReadNativeValue(i) ==
    /\ call' = [op |-> "native_value", entity |-> i,
                result |-> native_value(entities[i])]
    /\ UNCHANGED <<serial_number, data, entities, completed>>

Next ==
    \/ \E entry \in Entries : async_setup_entry(entry)
    \/ \E entry \in Entries, snapshot \in PolledSnapshots :
          Refresh(entry, snapshot)
    \/ \E i \in DOMAIN entities : ReadNativeValue(i)

Spec == Init /\ [][Next]_vars

(* one charger, set up once, over every snapshot *)
NextRead ==
    \/ entities = <<>> /\ async_setup_entry("entry_1")
    \/ \E snapshot \in Snapshots : Refresh("entry_1", snapshot)
    \/ \E i \in DOMAIN entities : ReadNativeValue(i)

SpecRead == Init /\ [][NextRead]_vars

-----------------------------------------------------------------------------
(* Properties *)

Keys == {SENSORS[i].key : i \in DOMAIN SENSORS}

(* the entity the last read was made on, and the snapshot it was made against *)
ReadEntity == entities[call.entity]

ReadSnapshot == data[ReadEntity.coordinator]

(* C1: a read of a field that the current snapshot lacks, or holds as      *)
(* None, returns None and does not raise.                                  *)
C1_AbsentFieldReadsNone ==
    call.op = "native_value" =>
        LET f == ReadEntity.entity_description.key IN
        (\/ f \notin DOMAIN ReadSnapshot
         \/ ReadSnapshot[f] = None) => call.result = None

(* C2: every read returns the extraction of the entity's description       *)
(* applied to the snapshot its coordinator holds now.                      *)
C2_ReadsCurrentSnapshot ==
    call.op = "native_value" =>
        call.result = get_native_value(ReadEntity.entity_description,
                                       data[ReadEntity.coordinator])

(* a read made after the coordinator replaced the snapshot the entity was  *)
(* built under, while the other charger holds another snapshot             *)
C2_Witness ==
    /\ call.op = "native_value"
    /\ ~IsRaise(call.result)
    /\ ReadEntity.device_info.sw_version = StrV("1.0.0")
    /\ ReadSnapshot = Idle
    /\ \E e \in Entries : data[e] # ReadSnapshot

(* C3: one completed async_setup_entry hands over exactly 9 entities, the  *)
(* i-th for the i-th entry of SENSORS, each bound to the entry's           *)
(* coordinator and friendly name.                                          *)
C3_SetupAddsOnePerSensor ==
    [][(call'.op = "async_setup_entry" /\ call'.result = None
            /\ entities' # entities) =>
        LET n == Len(entities) IN
        /\ Len(SENSORS) = 9
        /\ Len(entities') = n + 9
        /\ SubSeq(entities', 1, n) = entities
        /\ \A i \in 1..9 :
              /\ entities'[n + i].type = "LektricoSensor"
              /\ entities'[n + i].entity_description = SENSORS[i]
              /\ entities'[n + i].coordinator = call'.entry
              /\ entities'[n + i].device_info.name
                    = ConfFriendlyName(call'.entry)
        /\ \A i, j \in 1..9 :
              i # j => entities'[n + i].entity_description
                          # entities'[n + j].entity_description]_vars

(* the second charger has just been set up after the first *)
C3_Witness ==
    /\ call.op = "async_setup_entry"
    /\ call.result = None
    /\ call.entry = "entry_2"
    /\ Len(entities) = 18
    /\ entities[1].coordinator = "entry_1"

(* the number of entities of a (config entry, key) pair *)
Adapters(entry, key) ==
    Cardinality({i \in DOMAIN entities :
                    /\ entities[i].coordinator = entry
                    /\ entities[i].entity_description.key = key})

(* C4 as stated: every charger that has been set up, however often, has    *)
(* exactly one entity per key.                                             *)
C4_ExactlyOnePerPair ==
    \A e \in Entries : completed[e] > 0 =>
        \A k \in Keys : Adapters(e, k) = 1

(* C4 amended: a (charger, key) pair has as many entities as               *)
(* async_setup_entry completed for that charger: one after a single        *)
(* invocation, one more after each re-invocation.                          *)
C4_OnePerPairPerInvocation ==
    \A e \in Entries : \A k \in Keys : Adapters(e, k) = completed[e]

(* async_setup_entry has run twice for one charger *)
C4_Witness ==
    /\ call.op = "async_setup_entry"
    /\ completed[call.entry] = 2
    /\ \A k \in Keys : Adapters(call.entry, k) = 2

(* C5: two entities of distinct (serial number, key) pairs have distinct   *)
(* unique ids.                                                             *)
C5_GloballyUniqueIds ==
    \A i, j \in DOMAIN entities :
        (<<serial_number[entities[i].coordinator],
           entities[i].entity_description.key>>
         # <<serial_number[entities[j].coordinator],
             entities[j].entity_description.key>>)
        => entities[i].unique_id # entities[j].unique_id

(* C6: two entities of one charger with distinct descriptions have         *)
(* distinct unique ids, each the serial number, "_" and the key.           *)
C6_DistinctIdsPerDevice ==
    /\ \A i \in DOMAIN entities :
          entities[i].unique_id
             = serial_number[entities[i].coordinator] \o "_"
                  \o entities[i].entity_description.key
    /\ \A i, j \in DOMAIN entities :
          (/\ entities[i].coordinator = entities[j].coordinator
           /\ entities[i].entity_description # entities[j].entity_description)
          => entities[i].unique_id # entities[j].unique_id

(* both chargers carry their nine entities *)
C6_Witness ==
    /\ \A e \in Entries : completed[e] = 1
    /\ Cardinality({entities[i].unique_id : i \in DOMAIN entities}) >= 9

(* C7: async_setup_entry never ends in an error raised by a constructor.   *)
C7_ConstructionCannotFail ==
    call.op = "async_setup_entry" => call.result = None

(* C8: against a snapshot with all nine fields, a read returns the field   *)
(* named by the description's key coerced to the key's declared type.      *)
C8_TypedCoercion ==
    LET declared ==
            [charger_state |-> "str", charging_time |-> "int",
             current |-> "float", instant_power |-> "float",
             session_energy |-> "float", temperature |-> "float",
             total_charged_energy |-> "int", voltage |-> "float",
             install_current |-> "int"]
        coerce(t, v) == CASE t = "str"   -> py_str(v)
                          [] t = "int"   -> py_int(v)
                          [] t = "float" -> py_float(v)
    IN  (/\ call.op = "native_value"
         /\ \A f \in Keys : f \in DOMAIN ReadSnapshot /\ ReadSnapshot[f] # None)
        =>
        LET k == ReadEntity.entity_description.key IN
        /\ call.result = coerce(declared[k], ReadSnapshot[k])
        /\ call.result.type = declared[k]
        /\ (k = "charging_time" /\ ReadSnapshot[k] = IntV(3600))
              => call.result = IntV(3600)
        /\ (k = "current" /\ ReadSnapshot[k] = FloatV(1600))
              => call.result = FloatV(1600)
        /\ (k = "total_charged_energy" /\ ReadSnapshot[k] = IntV(102))
              => call.result = IntV(102)

(* total_charged_energy read as the integer 102 from the float 102.75 *)
C8_Witness ==
    /\ call.op = "native_value"
    /\ \A f \in Keys : f \in DOMAIN ReadSnapshot /\ ReadSnapshot[f] # None
    /\ ReadEntity.entity_description.key = "total_charged_energy"
    /\ ReadSnapshot["total_charged_energy"] = FloatV(10275)
    /\ call.result = IntV(102)

(* C9: an entity's sw_version is the fw_version of the snapshot current    *)
(* when it was built, and no later step changes an entity.                 *)
C9_FirmwareCapturedOnce ==
    [][/\ \A i \in DOMAIN entities :
             i \in DOMAIN entities' /\ entities'[i] = entities[i]
       /\ \A i \in (DOMAIN entities') \ (DOMAIN entities) :
             entities'[i].device_info.sw_version
                = getattr(data[entities'[i].coordinator], "fw_version")]_vars

(* an entity is read while its coordinator holds another firmware version *)
C9_Witness ==
    /\ call.op = "native_value"
    /\ ReadEntity.device_info.sw_version = StrV("1.0.0")
    /\ getattr(ReadSnapshot, "fw_version") = StrV("1.1.0")

(* C10: a read changes neither the snapshots nor the entities, and two     *)
(* reads in a row through the same description and coordinator agree.      *)
C10_PureRead ==
    [][call'.op = "native_value" =>
        /\ data' = data
        /\ entities' = entities
        /\ serial_number' = serial_number
        /\ (/\ call.op = "native_value"
            /\ entities[call.entity].entity_description
                  = entities[call'.entity].entity_description
            /\ entities[call.entity].coordinator
                  = entities[call'.entity].coordinator)
           => call'.result = call.result]_vars

(* the second entity of a (charger, key) pair is read *)
C10_Witness ==
    /\ call.op = "native_value"
    /\ call.entity > 9
    /\ ReadEntity.coordinator = entities[call.entity - 9].coordinator
    /\ ~IsRaise(call.result)

====
